---- MODULE Spec2Model ----
(***************************************************************************)
(* Model of the rules engine of linespy (src/src/linespy/board.py):        *)
(* the Board with its cells, the selection state machine of handle_action, *)
(* the path search of _evaluate_path, the line matcher of _evaluate_lines  *)
(* and the ball spawner of _add_balls.                                     *)
(*                                                                         *)
(* A cell is the pair <<column, row>> (1-based, as Cell.column, Cell.row). *)
(* Cell.color, Cell.cost and Cell.previous_cell are functions on cells.    *)
(* An event is a record with a "type" field named after its class.         *)
(***************************************************************************)
EXTENDS Integers, Sequences, FiniteSets, TLC

\* ------------------------------------------------------------------ bounds
\* Largest board created in Spec (Board.create(columns, rows)).
Columns == 2
Rows == 2
\* Size of the palette (BallColor has 7 members; the model uses the first few).
NColors == 2
\* handle_action is called while the score is below MaxScore.
MaxScore == 30
\* The board of SpecPath.
PathColumns == 3
PathRows == 3
\* The board of SpecLines.
LineColumns == 6
LineRows == 6

\* --------------------------------------------------------------- constants
MIN_BALLS_IN_LINE == 5
NumNewBalls == 3

\* None, for Cell.color, Cell.cost, Cell.previous_cell and Board.selected_cell.
NoColor == 0
NoCost == 0 - 1
NoCell == <<0, 0>>

BallColor == 1..NColors

VARIABLES
    columns,        \* Board.columns
    rows,           \* Board.rows
    color,          \* Cell.color of every cell of Board.cells
    cost,           \* Cell.cost
    previous_cell,  \* Cell.previous_cell
    selected_cell,  \* Board.selected_cell
    score,          \* Board.score
    events,         \* the sequence the last call returned
    raised,         \* the exception the last call raised, or "None"
    path,           \* the path the last _evaluate_path returned
    stack,          \* the work list of the _evaluate_path that is running
    clicked,        \* the cell the last call addressed: (column, row) of
                    \* handle_action, to_cell of _evaluate_path
    pc              \* the caller: "created" before handle_initialization,
                    \* "running" after it; "search", "searched" and
                    \* "searched again" around two calls of _evaluate_path;
                    \* "start", "loop", "done" inside one _evaluate_path

vars == <<columns, rows, color, cost, previous_cell, selected_cell, score,
          events, raised, path, stack, clicked, pc>>

\* ------------------------------------------------------------------ events
AddBall(cell) == [type |-> "AddBall", cell |-> cell]
GameOver == [type |-> "GameOver"]
SelectBall(cell) == [type |-> "SelectBall", cell |-> cell]
DeselectBall(cell) == [type |-> "DeselectBall", cell |-> cell]
MoveBall(cells) == [type |-> "MoveBall", path |-> cells]
LineCompleted(cells) == [type |-> "LineCompleted", cells |-> cells]
UpdateScore(s) == [type |-> "UpdateScore", score |-> s]
ImpossibleMove == [type |-> "ImpossibleMove"]

\* ------------------------------------------------------------------- board
\* Board.cells of a board of c columns and r rows.
CellsOf(c, r) == (1..c) \X (1..r)

Cells == CellsOf(columns, rows)

\* Board.__getitem__: the bounds test that raises KeyError.
InBounds(column, row) ==
    /\ 1 <= column /\ column <= columns
    /\ 1 <= row /\ row <= rows

\* __getitem__ that takes the nearest cell of the board for coordinates
\* outside it.
__getitem___Nearest(column, row) ==
    [raised |-> "None",
     cell |-> <<IF column < 1 THEN 1 ELSE IF column > columns THEN columns
                ELSE column,
                IF row < 1 THEN 1 ELSE IF row > rows THEN rows ELSE row>>]

\* Board.__getitem__, self[column, row]: the cell, or the KeyError raised.
__getitem__(column, row) ==
    IF InBounds(column, row)
    THEN [raised |-> "None", cell |-> <<column, row>>]
    ELSE [raised |-> "KeyError", cell |-> NoCell]

\* The number of steps between two cells.
Manhattan(a, b) ==
    (IF a[1] > b[1] THEN a[1] - b[1] ELSE b[1] - a[1])
    + (IF a[2] > b[2] THEN a[2] - b[2] ELSE b[2] - a[2])

\* Cell.is_empty
is_empty(col, cell) == col[cell] = NoColor

\* free_cells of _add_random_ball
FreeCells(col) == {cell \in DOMAIN col : is_empty(col, cell)}

\* ------------------------------------------------------------- path search
\* Neighbours without the cell to the right.
Neighbours_NoRight(col, cell) ==
    SelectSeq(<< <<cell[1], cell[2] - 1>>, <<cell[1], cell[2] + 1>>,
                 <<cell[1] - 1, cell[2]>> >>,
              LAMBDA n : n \in DOMAIN col)

\* The four neighbours tried by the work-list loop, in the code's order
\* (up, down, left, right); self[...] raises KeyError for a neighbour that is
\* no cell of the board, and the loop skips it.
Neighbours(col, cell) ==
    SelectSeq(<< <<cell[1], cell[2] - 1>>, <<cell[1], cell[2] + 1>>,
                 <<cell[1] - 1, cell[2]>>, <<cell[1] + 1, cell[2]>> >>,
              LAMBDA n : n \in DOMAIN col)

\* visit_cell that never lowers a cost it has set.
visit_cell_NoRelax(col, s, cell, previous) ==
    IF is_empty(col, cell) /\ s.cost[cell] = NoCost
    THEN [stack |-> Append(s.stack, cell),
          previous_cell |-> [s.previous_cell EXCEPT ![cell] = previous],
          cost |-> [s.cost EXCEPT ![cell] = s.cost[previous] + 1]]
    ELSE s

\* visit_cell(cell, previous_cell) on the search state
\* s = [stack, cost, previous_cell], for the colours col.
visit_cell(col, s, cell, previous) ==
    IF /\ is_empty(col, cell)
       /\ \/ s.cost[cell] = NoCost
          \/ s.cost[cell] > s.cost[previous] + 1
    THEN [stack |-> Append(s.stack, cell),
          previous_cell |-> [s.previous_cell EXCEPT ![cell] = previous],
          cost |-> [s.cost EXCEPT ![cell] = s.cost[previous] + 1]]
    ELSE s

RECURSIVE VisitAll(_, _, _, _)
VisitAll(col, s, ns, last_cell) ==
    IF ns = <<>> THEN s
    ELSE VisitAll(col, visit_cell(col, s, Head(ns), last_cell), Tail(ns), last_cell)

\* SearchStep that leaves the cell it takes on the stack.
SearchStep_NoPop(col, s) ==
    LET last_cell == s.stack[Len(s.stack)]
    IN  VisitAll(col, s, Neighbours(col, last_cell), last_cell)

\* One iteration of "while stack": pop the last cell, visit its neighbours.
SearchStep(col, s) ==
    LET last_cell == s.stack[Len(s.stack)]
        popped == [s EXCEPT !.stack = SubSeq(s.stack, 1, Len(s.stack) - 1)]
    IN  VisitAll(col, popped, Neighbours(col, last_cell), last_cell)

RECURSIVE SearchLoop(_, _)
SearchLoop(col, s) ==
    IF s.stack = <<>> THEN s ELSE SearchLoop(col, SearchStep(col, s))

\* SearchStart without the reset: the search starts on the fields it finds.
SearchStart_NoReset(col, cst, prev, from_cell) ==
    [stack |-> <<from_cell>>,
     cost |-> [cst EXCEPT ![from_cell] = 0],
     previous_cell |-> prev]

\* The start of a search on cells whose fields are cst and prev: the reset of
\* every cell's cost and previous_cell, then from_cell.cost = 0 and
\* stack = [from_cell].
SearchStart(col, cst, prev, from_cell) ==
    [stack |-> <<from_cell>>,
     cost |-> [[cell \in DOMAIN cst |-> NoCost] EXCEPT ![from_cell] = 0],
     previous_cell |-> [cell \in DOMAIN prev |-> NoCell]]

\* The walk back along previous_cell: path.insert(0, start_cell) until None.
RECURSIVE WalkBack(_, _, _)
WalkBack(prev, start_cell, cells) ==
    IF prev[start_cell] = NoCell THEN cells
    ELSE WalkBack(prev, prev[start_cell], <<prev[start_cell]>> \o cells)

\* _evaluate_path that leaves the ball's colour on from_cell as well.
_evaluate_path_KeepsOrigin(col, cst, prev, from_cell, to_cell) ==
    LET s == SearchLoop(col, SearchStart(col, cst, prev, from_cell))
    IN  IF s.previous_cell[to_cell] = NoCell
        THEN [path |-> <<>>, color |-> col,
              cost |-> s.cost, previous_cell |-> s.previous_cell]
        ELSE [path |-> WalkBack(s.previous_cell, to_cell, <<to_cell>>),
              color |-> [col EXCEPT ![to_cell] = col[from_cell]],
              cost |-> s.cost, previous_cell |-> s.previous_cell]

\* Board._evaluate_path: the path, and the cell fields it leaves behind.
\* On success the ball's colour goes from from_cell to to_cell.
_evaluate_path(col, cst, prev, from_cell, to_cell) ==
    LET s == SearchLoop(col, SearchStart(col, cst, prev, from_cell))
    IN  IF s.previous_cell[to_cell] = NoCell
        THEN [path |-> <<>>, color |-> col,
              cost |-> s.cost, previous_cell |-> s.previous_cell]
        ELSE [path |-> WalkBack(s.previous_cell, to_cell, <<to_cell>>),
              color |-> [col EXCEPT ![to_cell] = col[from_cell],
                                    ![from_cell] = NoColor],
              cost |-> s.cost, previous_cell |-> s.previous_cell]

\* ------------------------------------------------------------ line matcher
\* Number of cells after `cell`, stepping by (dc, dr), that are on the board
\* and have the colour k: one of the four for-loops of _evaluate_lines.
RECURSIVE RunLength(_, _, _, _, _)
RunLength(col, cell, dc, dr, k) ==
    LET next == <<cell[1] + dc, cell[2] + dr>>
    IN  IF next \in DOMAIN col /\ col[next] = k
        THEN 1 + RunLength(col, next, dc, dr, k)
        ELSE 0

\* v_line: the cells of the landing cell's column, from the top of the run down.
v_line(col, cell) ==
    LET up == RunLength(col, cell, 0, 0 - 1, col[cell])
        down == RunLength(col, cell, 0, 1, col[cell])
    IN  [i \in 1..(up + 1 + down) |-> <<cell[1], cell[2] - up + i - 1>>]

\* h_line: the cells of the landing cell's row, from the left of the run.
h_line(col, cell) ==
    LET left == RunLength(col, cell, 0 - 1, 0, col[cell])
        right == RunLength(col, cell, 1, 0, col[cell])
    IN  [i \in 1..(left + 1 + right) |-> <<cell[1] - left + i - 1, cell[2]>>]

\* _evaluate_lines that asks for more than MIN_BALLS_IN_LINE balls.
_evaluate_lines_Strict(col, cell) ==
    (IF Len(h_line(col, cell)) > MIN_BALLS_IN_LINE THEN h_line(col, cell) ELSE <<>>)
    \o
    (IF Len(v_line(col, cell)) > MIN_BALLS_IN_LINE THEN v_line(col, cell) ELSE <<>>)

\* Board._evaluate_lines: result += h_line, then result += v_line.
_evaluate_lines(col, cell) ==
    (IF Len(h_line(col, cell)) >= MIN_BALLS_IN_LINE THEN h_line(col, cell) ELSE <<>>)
    \o
    (IF Len(v_line(col, cell)) >= MIN_BALLS_IN_LINE THEN v_line(col, cell) ELSE <<>>)

\* The cells of a sequence of cells.
Range(seq) == {seq[i] : i \in 1..Len(seq)}

\* ----------------------------------------------------------------- spawner
\* Board._add_balls from its n-th remaining iteration: every outcome the
\* random choices of _add_random_ball allow. An outcome is the colours, the
\* events returned and the exception raised ("None" when it returns).
\* AddBallsLoop that announces GameOver and stops when at most one cell is
\* left empty.
RECURSIVE AddBallsLoop_GameOverEarly(_, _, _)
AddBallsLoop_GameOverEarly(col, evs, n) ==
    IF n = 0 THEN {[color |-> col, events |-> evs, raised |-> "None"]}
    ELSE IF FreeCells(col) = {}
    THEN {[color |-> col, events |-> <<>>, raised |-> "NoMoreFreeCellsError"]}
    ELSE UNION {
        LET col2 == [col EXCEPT ![target_cell] = k]
            evs2 == Append(evs, AddBall(target_cell))
        IN  IF Cardinality(FreeCells(col2)) <= 1
            THEN {[color |-> col2, events |-> Append(evs2, GameOver),
                   raised |-> "None"]}
            ELSE AddBallsLoop_GameOverEarly(col2, evs2, n - 1)
        : target_cell \in FreeCells(col), k \in BallColor }

\* AddBallsLoop that stops at a full board without the GameOver event.
RECURSIVE AddBallsLoop_NoGameOver(_, _, _)
AddBallsLoop_NoGameOver(col, evs, n) ==
    IF n = 0 THEN {[color |-> col, events |-> evs, raised |-> "None"]}
    ELSE IF FreeCells(col) = {}
    THEN {[color |-> col, events |-> <<>>, raised |-> "NoMoreFreeCellsError"]}
    ELSE UNION {
        LET col2 == [col EXCEPT ![target_cell] = k]
            evs2 == Append(evs, AddBall(target_cell))
        IN  IF FreeCells(col2) = {}
            THEN {[color |-> col2, events |-> evs2, raised |-> "None"]}
            ELSE AddBallsLoop_NoGameOver(col2, evs2, n - 1)
        : target_cell \in FreeCells(col), k \in BallColor }

\* AddBallsLoop with free_cells computed once, before the first spawn: a
\* later spawn can take the cell of an earlier one.
RECURSIVE AddBallsLoop_StaleFreeCells(_, _, _)
AddBallsLoop_StaleFreeCells(col, evs, n) ==
    LET free_cells == FreeCells(col) \cup {evs[i].cell : i \in 1..Len(evs)}
    IN  IF n = 0 THEN {[color |-> col, events |-> evs, raised |-> "None"]}
        ELSE IF free_cells = {}
        THEN {[color |-> col, events |-> <<>>,
               raised |-> "NoMoreFreeCellsError"]}
        ELSE UNION {
            LET col2 == [col EXCEPT ![target_cell] = k]
                evs2 == Append(evs, AddBall(target_cell))
            IN  IF FreeCells(col2) = {}
                THEN {[color |-> col2, events |-> Append(evs2, GameOver),
                       raised |-> "None"]}
                ELSE AddBallsLoop_StaleFreeCells(col2, evs2, n - 1)
            : target_cell \in free_cells, k \in BallColor }

\* AddBallsLoop that goes on after the spawn that filled the board.
RECURSIVE AddBallsLoop_NoBreak(_, _, _)
AddBallsLoop_NoBreak(col, evs, n) ==
    IF n = 0 THEN {[color |-> col, events |-> evs, raised |-> "None"]}
    ELSE IF FreeCells(col) = {}
    THEN {[color |-> col, events |-> <<>>, raised |-> "NoMoreFreeCellsError"]}
    ELSE UNION {
        LET col2 == [col EXCEPT ![target_cell] = k]
            evs2 == Append(evs, AddBall(target_cell))
        IN  IF FreeCells(col2) = {}
            THEN AddBallsLoop_NoBreak(col2, Append(evs2, GameOver), n - 1)
            ELSE AddBallsLoop_NoBreak(col2, evs2, n - 1)
        : target_cell \in FreeCells(col), k \in BallColor }

RECURSIVE AddBallsLoop(_, _, _)
AddBallsLoop(col, evs, n) ==
    IF n = 0 THEN {[color |-> col, events |-> evs, raised |-> "None"]}
    ELSE IF FreeCells(col) = {}
    THEN {[color |-> col, events |-> <<>>, raised |-> "NoMoreFreeCellsError"]}
    ELSE UNION {
        LET col2 == [col EXCEPT ![target_cell] = k]
            evs2 == Append(evs, AddBall(target_cell))
        IN  IF FreeCells(col2) = {}
            THEN {[color |-> col2, events |-> Append(evs2, GameOver),
                   raised |-> "None"]}
            ELSE AddBallsLoop(col2, evs2, n - 1)
        : target_cell \in FreeCells(col), k \in BallColor }

\* _add_balls with one iteration less.
_add_balls_OneLess(col) == AddBallsLoop(col, <<>>, NumNewBalls - 1)

_add_balls(col) == AddBallsLoop(col, <<>>, NumNewBalls)

\* --------------------------------------------------------------- move
\* LineEvents with the score before the line.
LineEvents_ScoreFirst(cells, formed_lines, new_score) ==
    <<MoveBall(cells), UpdateScore(new_score), LineCompleted(formed_lines)>>

\* The events of a move along cells that completed formed_lines, with the
\* score after it: MoveBall, LineCompleted, UpdateScore.
LineEvents(cells, formed_lines, new_score) ==
    <<MoveBall(cells), LineCompleted(formed_lines), UpdateScore(new_score)>>

\* ScoreAfter that sets the score to the length of the line.
ScoreAfter_Assign(old_score, formed_lines) == Len(formed_lines)

\* The score after formed_lines were cleared: self.score += len(formed_lines).
ScoreAfter(old_score, formed_lines) == old_score + Len(formed_lines)

\* Board._handle_ball_move(from_cell, to_cell): every outcome, as the cell
\* fields, the score, the path, the events returned and the exception raised.
_handle_ball_move(from_cell, to_cell) ==
    LET p == _evaluate_path(color, cost, previous_cell, from_cell, to_cell)
        formed_lines == _evaluate_lines(p.color, to_cell)
        moved == [color |-> p.color, cost |-> p.cost,
                  previous_cell |-> p.previous_cell, score |-> score,
                  path |-> p.path, events |-> <<MoveBall(p.path)>>,
                  raised |-> "None"]
    IN  IF p.path = <<>>
        THEN {[moved EXCEPT !.events = <<ImpossibleMove>>]}
        ELSE IF formed_lines # <<>>
        THEN {[moved EXCEPT
                 !.color = [cell \in DOMAIN p.color |->
                              IF cell \in Range(formed_lines) THEN NoColor
                              ELSE p.color[cell]],
                 !.score = ScoreAfter(score, formed_lines),
                 !.events = LineEvents(p.path, formed_lines,
                                       ScoreAfter(score, formed_lines))]}
        ELSE {[moved EXCEPT
                 !.color = a.color,
                 !.events = IF a.raised = "None"
                            THEN <<MoveBall(p.path)>> \o a.events ELSE <<>>,
                 !.raised = a.raised]
              : a \in _add_balls(p.color)}

\* SelectionAfterMove that keeps the selection after every move.
SelectionAfterMove_Keeps(move_events) == selected_cell

\* SelectionAfterMove that drops the selection after every move.
SelectionAfterMove_Drops(move_events) == NoCell

\* SelectionAfterMove that drops the selection only after a completed line.
SelectionAfterMove_LineOnly(move_events) ==
    IF Len(move_events) = 3 /\ move_events[2].type = "LineCompleted"
    THEN NoCell ELSE selected_cell

\* selected_cell after _handle_ball_move returned move_events: it
\* "becomes deselected after a successful move".
SelectionAfterMove(move_events) ==
    IF move_events # <<ImpossibleMove>> THEN NoCell ELSE selected_cell

\* ClickBallEvents with the selection before the deselection.
ClickBallEvents_SelectFirst(cell) ==
    (IF selected_cell = cell THEN <<>> ELSE <<SelectBall(cell)>>)
    \o (IF selected_cell # NoCell THEN <<DeselectBall(selected_cell)>> ELSE <<>>)

\* The events of a click on the ball of `cell`: the deselection of the
\* selected ball, if any, then the selection of another ball.
ClickBallEvents(cell) ==
    (IF selected_cell # NoCell THEN <<DeselectBall(selected_cell)>> ELSE <<>>)
    \o (IF selected_cell = cell THEN <<>> ELSE <<SelectBall(cell)>>)

\* ClickBallSelection that selects the clicked ball whatever was selected.
ClickBallSelection_Always(cell) == cell

\* selected_cell after a click on the ball of `cell`.
ClickBallSelection(cell) ==
    IF selected_cell = cell THEN NoCell ELSE cell

\* ----------------------------------------------------------------- actions
\* Board.create(columns, rows) for every size up to the bounds.
Init ==
    /\ columns \in 0..Columns
    /\ rows \in 0..Rows
    /\ color = [cell \in CellsOf(columns, rows) |-> NoColor]
    /\ cost = [cell \in CellsOf(columns, rows) |-> NoCost]
    /\ previous_cell = [cell \in CellsOf(columns, rows) |-> NoCell]
    /\ selected_cell = NoCell
    /\ score = 0
    /\ events = <<>>
    /\ raised = "None"
    /\ path = <<>>
    /\ stack = <<>>
    /\ clicked = NoCell
    /\ pc = "created"

\* Board.handle_initialization, called once on the created board.
HandleInitialization ==
    /\ pc = "created"
    /\ pc' = "running"
    /\ \E a \in _add_balls(color) :
          /\ color' = a.color
          /\ events' = a.events
          /\ raised' = a.raised
    /\ UNCHANGED <<columns, rows, cost, previous_cell, selected_cell, score,
                   path, stack, clicked>>

\* Board.handle_action(column, row).
HandleAction(column, row) ==
    /\ pc = "running"
    /\ score < MaxScore
    /\ clicked' = <<column, row>>
    /\ UNCHANGED <<columns, rows, stack, pc>>
    /\ IF __getitem__(column, row).raised # "None"
       THEN \* cell = self[column, row] raises KeyError
            /\ raised' = __getitem__(column, row).raised
            /\ events' = <<>>
            /\ UNCHANGED <<color, cost, previous_cell, selected_cell, score,
                           path>>
       ELSE LET cell == __getitem__(column, row).cell IN
            IF is_empty(color, cell)
            THEN IF selected_cell = NoCell
                 THEN /\ events' = <<>>
                      /\ raised' = "None"
                      /\ UNCHANGED <<color, cost, previous_cell, selected_cell,
                                     score, path>>
                 ELSE \E m \in _handle_ball_move(selected_cell, cell) :
                      /\ color' = m.color
                      /\ cost' = m.cost
                      /\ previous_cell' = m.previous_cell
                      /\ score' = m.score
                      /\ path' = m.path
                      /\ events' = m.events
                      /\ raised' = m.raised
                      /\ selected_cell' =
                            IF m.raised = "None"
                            THEN SelectionAfterMove(m.events)
                            ELSE selected_cell
            ELSE /\ raised' = "None"
                 /\ UNCHANGED <<color, cost, previous_cell, score, path>>
                 /\ selected_cell' = ClickBallSelection(cell)
                 /\ events' = ClickBallEvents(cell)

Next ==
    \/ HandleInitialization
    \/ \E column \in 0..(columns + 1), row \in 0..(rows + 1) :
          HandleAction(column, row)

Spec == Init /\ [][Next]_vars

\* ------------------------------------------------- a single path evaluation
\* Cell fields as an earlier search leaves them: never searched, or searched
\* from the first cell of the board.
LeftOverFields(col) ==
    LET never == [cost |-> [cell \in DOMAIN col |-> NoCost],
                  previous_cell |-> [cell \in DOMAIN col |-> NoCell]]
        s == SearchLoop(col, SearchStart(col, never.cost, never.previous_cell,
                                         <<1, 1>>))
    IN  {never, [cost |-> s.cost, previous_cell |-> s.previous_cell]}

\* The ball colour the bounded boards give a cell.
PatternColor(cell) == 1 + ((cell[1] + cell[2]) % NColors)

\* Every occupancy of a PathColumns x PathRows board, with a ball selected.
InitPath ==
    /\ columns = PathColumns
    /\ rows = PathRows
    /\ \E balls \in SUBSET CellsOf(PathColumns, PathRows) :
          LET col == [cell \in CellsOf(PathColumns, PathRows) |->
                        IF cell \in balls THEN PatternColor(cell) ELSE NoColor]
          IN  /\ color = col
              /\ \E f \in LeftOverFields(col) :
                    /\ cost = f.cost
                    /\ previous_cell = f.previous_cell
    /\ selected_cell \in DOMAIN color \ FreeCells(color)
    /\ score = 0
    /\ events = <<>>
    /\ raised = "None"
    /\ path = <<>>
    /\ stack = <<>>
    /\ clicked = NoCell
    /\ pc = "search"

\* Board._evaluate_path(from_cell = selected_cell, to_cell), as
\* _handle_ball_move calls it: from a ball to an empty cell.
EvaluatePath(to_cell) ==
    /\ pc = "search"
    /\ is_empty(color, to_cell)
    /\ LET p == _evaluate_path(color, cost, previous_cell, selected_cell, to_cell)
       IN  /\ color' = p.color
           /\ cost' = p.cost
           /\ previous_cell' = p.previous_cell
           /\ path' = p.path
    /\ clicked' = to_cell
    /\ pc' = "searched"
    /\ UNCHANGED <<columns, rows, selected_cell, score, events, raised, stack>>

\* The next call of _evaluate_path on the same board, with the cost and
\* previous_cell the first call left: from another selected ball to an empty
\* cell.
EvaluatePathAgain(from_cell, to_cell) ==
    /\ pc = "searched"
    /\ ~is_empty(color, from_cell)
    /\ is_empty(color, to_cell)
    /\ LET p == _evaluate_path(color, cost, previous_cell, from_cell, to_cell)
       IN  /\ color' = p.color
           /\ cost' = p.cost
           /\ previous_cell' = p.previous_cell
           /\ path' = p.path
    /\ selected_cell' = from_cell
    /\ clicked' = to_cell
    /\ pc' = "searched again"
    /\ UNCHANGED <<columns, rows, score, events, raised, stack>>

NextPath ==
    \/ \E to_cell \in Cells : EvaluatePath(to_cell)
    \/ \E from_cell \in Cells, to_cell \in Cells :
          EvaluatePathAgain(from_cell, to_cell)

SpecPath == InitPath /\ [][NextPath]_vars

\* ------------------------------------------- the work-list loop, by steps
\* Every occupancy of a PathColumns x PathRows board, with a ball selected,
\* at the entry of _evaluate_path(from_cell = selected_cell, ...).
InitSearch ==
    /\ columns = PathColumns
    /\ rows = PathRows
    /\ \E balls \in SUBSET CellsOf(PathColumns, PathRows) :
          color = [cell \in CellsOf(PathColumns, PathRows) |->
                     IF cell \in balls THEN PatternColor(cell) ELSE NoColor]
    /\ cost = [cell \in CellsOf(PathColumns, PathRows) |-> NoCost]
    /\ previous_cell = [cell \in CellsOf(PathColumns, PathRows) |-> NoCell]
    /\ selected_cell \in DOMAIN color \ FreeCells(color)
    /\ score = 0
    /\ events = <<>>
    /\ raised = "None"
    /\ path = <<>>
    /\ stack = <<>>
    /\ clicked = NoCell
    /\ pc = "start"

\* The reset of the cells, from_cell.cost = 0 and stack = [from_cell].
StartSearch ==
    /\ pc = "start"
    /\ LET s == SearchStart(color, cost, previous_cell, selected_cell)
       IN  /\ stack' = s.stack
           /\ cost' = s.cost
           /\ previous_cell' = s.previous_cell
    /\ pc' = "loop"
    /\ UNCHANGED <<columns, rows, color, selected_cell, score, events, raised,
                   path, clicked>>

\* One iteration of "while stack".
SearchIteration ==
    /\ pc = "loop"
    /\ stack # <<>>
    /\ LET s == SearchStep(color, [stack |-> stack, cost |-> cost,
                                   previous_cell |-> previous_cell])
       IN  /\ stack' = s.stack
           /\ cost' = s.cost
           /\ previous_cell' = s.previous_cell
    /\ UNCHANGED <<columns, rows, color, selected_cell, score, events, raised,
                   path, clicked, pc>>

\* "while stack" finds the stack empty.
SearchExit ==
    /\ pc = "loop"
    /\ stack = <<>>
    /\ pc' = "done"
    /\ UNCHANGED <<columns, rows, color, cost, previous_cell, selected_cell,
                   score, events, raised, path, stack, clicked>>

NextSearch == StartSearch \/ SearchIteration \/ SearchExit

\* The code runs on until it returns: the next step is always taken.
SpecSearch == InitSearch /\ [][NextSearch]_vars /\ WF_vars(NextSearch)

\* ------------------------------------------------ positions around a line
\* A full board but for a few cells. The landing cell <<2, 1>> is empty, and
\* <<1, 1>> holds a ball of colour k. Right of the landing cell lie h balls of
\* colour 1 and below it v balls of colour 1; the last cells of the last column
\* (from the bottom up) are empty; every other cell has the last colour.
LineBoard(k, h, v, holes) ==
    [cell \in CellsOf(LineColumns, LineRows) |->
        IF cell = <<1, 1>> THEN k
        ELSE IF cell = <<2, 1>> THEN NoColor
        ELSE IF cell[2] = 1 /\ cell[1] >= 3 /\ cell[1] <= 2 + h THEN 1
        ELSE IF cell[1] = 2 /\ cell[2] >= 2 /\ cell[2] <= 1 + v THEN 1
        ELSE IF cell[1] = LineColumns /\ cell[2] > LineRows - holes THEN NoColor
        ELSE NColors]

\* A score the board can have with n balls on it: every spawn but the one
\* that fills the board adds NumNewBalls balls, and a line takes
\* MIN_BALLS_IN_LINE balls and adds as much to the score.
ScoreWith(n) ==
    CHOOSE s \in {0, MIN_BALLS_IN_LINE, 2 * MIN_BALLS_IN_LINE} :
        (n + s) % NumNewBalls = 0

InitLines ==
    /\ columns = LineColumns
    /\ rows = LineRows
    /\ \E k \in BallColor, h \in 0..(LineColumns - 2), v \in 0..(LineRows - 1),
          holes \in 0..NumNewBalls :
          /\ holes < NumNewBalls \/ (h = 0 /\ v = 0)
          /\ color = LineBoard(k, h, v, holes)
          /\ \E f \in LeftOverFields(LineBoard(k, h, v, holes)) :
                /\ cost = f.cost
                /\ previous_cell = f.previous_cell
          /\ score = ScoreWith(LineColumns * LineRows - 1 - holes)
    /\ selected_cell \in {NoCell} \cup
          {cell \in DOMAIN color \ FreeCells(color) :
              \E hole \in FreeCells(color) : Manhattan(cell, hole) <= 2}
    /\ events = <<>>
    /\ raised = "None"
    /\ path = <<>>
    /\ stack = <<>>
    /\ clicked = NoCell
    /\ pc = "running"

\* One call of handle_action from each position.
NextLines ==
    \E column \in 0..(columns + 1), row \in 0..(rows + 1) :
        /\ clicked = NoCell
        /\ HandleAction(column, row)

SpecLines == InitLines /\ [][NextLines]_vars

\* ============================================================== properties
\* Two cells are orthogonally adjacent.
Adjacent(a, b) == Manhattan(a, b) = 1

\* The cells with a ball.
Balls(col) == DOMAIN col \ FreeCells(col)

\* The closure of a set of cells under "an empty cell adjacent to it".
RECURSIVE Flood(_, _)
Flood(col, seen) ==
    LET more == {cell \in FreeCells(col) \ seen :
                    \E s \in seen : Adjacent(cell, s)}
    IN  IF more = {} THEN seen ELSE Flood(col, seen \cup more)

\* There is a chain of adjacent empty cells from a neighbour of from_cell to
\* to_cell.
HasRoute(col, from_cell, to_cell) ==
    to_cell \in Flood(col, {from_cell}) \ {from_cell}

\* The fewest steps through empty cells from the cells of `seen` (d steps from
\* the origin) to to_cell, by levels; -1 when there is no route.
RECURSIVE StepsTo(_, _, _, _)
StepsTo(col, seen, to_cell, d) ==
    LET more == {cell \in FreeCells(col) \ seen :
                    \E s \in seen : Adjacent(cell, s)}
    IN  IF to_cell \in seen THEN d
        ELSE IF more = {} THEN 0 - 1
        ELSE StepsTo(col, seen \cup more, to_cell, d + 1)

Steps(col, from_cell, to_cell) == StepsTo(col, {from_cell}, to_cell, 0)

\* The step is a call handle_action(column, row) on an empty cell of the board
\* while a ball is selected: a move from selected_cell to clicked'.
MoveAttempt ==
    /\ pc = "running"
    /\ selected_cell # NoCell
    /\ clicked' \in FreeCells(color)

\* C1: selected_cell is None or a cell of the board that holds a ball, also
\* after a move that cleared a line.
C1_SelectedCellHoldsBall ==
    \/ selected_cell = NoCell
    \/ /\ selected_cell \in DOMAIN color
       /\ color[selected_cell] # NoColor

\* A line was cleared, the cell the ball left is empty and nothing is selected.
C1_Witness ==
    /\ Len(events) = 3
    /\ events[2].type = "LineCompleted"
    /\ \A cell \in Range(events[2].cells) \cup {path[1]} : color[cell] = NoColor
    /\ selected_cell = NoCell

\* C2: a move to an empty cell without a route returns exactly
\* [ImpossibleMove()] and changes no colour, nor the score, nor selected_cell.
C2_ImpossibleMoveChangesNothing ==
    [][(MoveAttempt /\ ~HasRoute(color, selected_cell, clicked'))
        => /\ events' = <<ImpossibleMove>>
           /\ raised' = "None"
           /\ color' = color
           /\ score' = score
           /\ selected_cell' = selected_cell]_vars

\* An impossible move was answered: the ball is still selected, the target
\* still empty.
C2_Witness ==
    /\ events = <<ImpossibleMove>>
    /\ selected_cell \in Balls(color)
    /\ clicked \in FreeCells(color)

\* C3: for a reachable to_cell the path starts at from_cell, ends at to_cell,
\* steps between adjacent cells, runs through cells that were empty, and has
\* the fewest cells of all such paths: never fewer than the Manhattan distance
\* plus one, and exactly that when from_cell holds the only ball.
C3_PathIsShortest ==
    [][(pc = "search" /\ HasRoute(color, selected_cell, clicked'))
        => /\ Len(path') >= 1
           /\ path'[1] = selected_cell
           /\ path'[Len(path')] = clicked'
           /\ \A i \in 1..(Len(path') - 1) : Adjacent(path'[i], path'[i + 1])
           /\ \A i \in 2..Len(path') : color[path'[i]] = NoColor
           /\ Len(path') = Steps(color, selected_cell, clicked') + 1
           /\ Len(path') >= Manhattan(selected_cell, clicked') + 1
           /\ (Balls(color) = {selected_cell}
                 => Len(path') = Manhattan(selected_cell, clicked') + 1)]_vars

\* A path that had to go around balls: longer than the Manhattan distance.
C3_Witness ==
    /\ pc = "searched"
    /\ path # <<>>
    /\ Len(path) > Manhattan(path[1], clicked) + 1

\* C4: _evaluate_path returns the empty sequence exactly when no chain of
\* adjacent empty cells leads from a neighbour of from_cell to to_cell, and a
\* path of at least two cells otherwise.
C4_EmptyIffBlocked ==
    [][pc = "search"
        => /\ (path' = <<>>) <=> ~HasRoute(color, selected_cell, clicked')
           /\ path' # <<>> => Len(path') >= 2]_vars

\* No path to an empty cell walled off by balls.
C4_Witness ==
    /\ pc = "searched"
    /\ path = <<>>
    /\ clicked \in FreeCells(color)
    /\ \A cell \in DOMAIN color : Adjacent(cell, clicked) => color[cell] # NoColor

\* The step is a move: a click on an empty cell that a route leads to from the
\* selected ball.
Moved ==
    /\ MoveAttempt
    /\ HasRoute(color, selected_cell, clicked')

\* The colours once the selected ball has gone to the clicked cell.
AfterMove ==
    [color EXCEPT ![clicked'] = color[selected_cell], ![selected_cell] = NoColor]

\* The maximal run of balls of the colour of `cell` through it, in its row
\* and in its column.
RowRun(col, cell) ==
    {c \in DOMAIN col :
        /\ c[2] = cell[2]
        /\ \A x \in 1..Cardinality(DOMAIN col) :
              ((c[1] <= x /\ x <= cell[1]) \/ (cell[1] <= x /\ x <= c[1]))
                 => col[<<x, cell[2]>>] = col[cell]}

ColumnRun(col, cell) ==
    {c \in DOMAIN col :
        /\ c[1] = cell[1]
        /\ \A y \in 1..Cardinality(DOMAIN col) :
              ((c[2] <= y /\ y <= cell[2]) \/ (cell[2] <= y /\ y <= c[2]))
                 => col[<<cell[1], y>>] = col[cell]}

\* The cells of the runs through `cell` of at least MIN_BALLS_IN_LINE balls.
Qualifying(col, cell) ==
    (IF Cardinality(RowRun(col, cell)) >= MIN_BALLS_IN_LINE
     THEN RowRun(col, cell) ELSE {})
    \cup
    (IF Cardinality(ColumnRun(col, cell)) >= MIN_BALLS_IN_LINE
     THEN ColumnRun(col, cell) ELSE {})

\* The cells whose ball the step's line clearing removed.
Cleared == {cell \in DOMAIN color :
               AfterMove[cell] # NoColor /\ color'[cell] = NoColor}

EventTypes(evs) == [i \in 1..Len(evs) |-> evs[i].type]

\* C5: a move that completes a line adds to the score the number of cells it
\* cleared, also when a row and a column are completed at once.
C5_ScoreCountsClearedCells ==
    [][(Moved /\ Qualifying(AfterMove, clicked') # {})
        => score' - score = Cardinality(Cleared)]_vars

\* C6: after a move, the cells cleared are exactly the cells of the runs of at
\* least MIN_BALLS_IN_LINE balls through the landing cell; a run of exactly
\* MIN_BALLS_IN_LINE adds MIN_BALLS_IN_LINE to the score, and without such a
\* run no cell is cleared and the score stays.
C6_ClearsQualifyingRuns ==
    [][Moved
        => /\ Cleared = Qualifying(AfterMove, clicked')
           /\ Cardinality(Qualifying(AfterMove, clicked')) = MIN_BALLS_IN_LINE
                 => score' = score + MIN_BALLS_IN_LINE
           /\ Qualifying(AfterMove, clicked') = {} => score' = score]_vars

\* A run of exactly MIN_BALLS_IN_LINE balls was cleared.
C6_Witness ==
    /\ Len(events) = 3
    /\ events[2].type = "LineCompleted"
    /\ Len(events[2].cells) = MIN_BALLS_IN_LINE
    /\ \A cell \in Range(events[2].cells) : color[cell] = NoColor
    /\ events[3] = UpdateScore(score)

\* C7: a move that clears no line leaves min(3, E) more balls on the board, E
\* the number of empty cells before it, and returns GameOver exactly when the
\* board is full afterwards.
C7_SpawnCount ==
    [][(Moved /\ Qualifying(AfterMove, clicked') = {})
        => /\ Cardinality(Balls(color')) = Cardinality(Balls(color))
                + (IF Cardinality(FreeCells(color)) < 3
                   THEN Cardinality(FreeCells(color)) ELSE 3)
           /\ (\E i \in 1..Len(events') : events'[i] = GameOver)
                 <=> FreeCells(color') = {}]_vars

\* Three balls were spawned after a move and the board is not full.
C7_Witness ==
    /\ EventTypes(events) = <<"MoveBall", "AddBall", "AddBall", "AddBall">>
    /\ FreeCells(color) # {}

ClickOnBall ==
    /\ pc = "running"
    /\ clicked' \in Balls(color)

\* C9: with nothing selected, a click on a ball x returns [SelectBall(x)] and
\* selects x; the next click, on x again, returns [DeselectBall(x)] and
\* leaves nothing selected.
C9_SelectThenDeselect ==
    [][/\ (ClickOnBall /\ selected_cell = NoCell)
            => /\ events' = <<SelectBall(clicked')>>
               /\ selected_cell' = clicked'
       /\ (/\ ClickOnBall
           /\ events = <<SelectBall(clicked)>>
           /\ selected_cell = clicked
           /\ clicked' = clicked)
            => /\ events' = <<DeselectBall(clicked)>>
               /\ selected_cell' = NoCell]_vars

\* The second click on the same ball was answered.
C9_Witness ==
    /\ pc = "running"
    /\ clicked \in Balls(color)
    /\ events = <<DeselectBall(clicked)>>
    /\ selected_cell = NoCell

\* C10: with a ball `first` selected, a click on another ball `second`
\* returns [DeselectBall(first), SelectBall(second)] and selects `second`.
C10_Reselect ==
    [][(ClickOnBall /\ selected_cell # NoCell /\ selected_cell # clicked')
        => /\ events' = <<DeselectBall(selected_cell), SelectBall(clicked')>>
           /\ selected_cell' = clicked']_vars

\* Another ball was selected in place of the first.
C10_Witness ==
    /\ Len(events) = 2
    /\ events[1].type = "DeselectBall"
    /\ events[2] = SelectBall(selected_cell)
    /\ events[1].cell # selected_cell
    /\ {events[1].cell, selected_cell} \subseteq Balls(color)

\* C11: after every successful move (a click on an empty cell answered with a
\* MoveBall event), whether it cleared a line or spawned balls, nothing is
\* selected, also when a spawned ball landed on the cell the ball left.
C11_IdleAfterMove ==
    [][(/\ MoveAttempt
        /\ events' # <<>>
        /\ events'[1].type = "MoveBall")
        => selected_cell' = NoCell]_vars

\* After a move without a line a ball was spawned on the cell the moved ball
\* left, and nothing is selected.
C11_Witness ==
    /\ Len(events) >= 2
    /\ events[1].type = "MoveBall"
    /\ \E i \in 2..Len(events) : events[i] = AddBall(path[1])
    /\ color[path[1]] # NoColor
    /\ selected_cell = NoCell

\* The step is a call of _evaluate_path from selected_cell' to clicked'.
PathCall == pc \in {"search", "searched"}

\* C12: when there is a route, the path computation changes the colour of
\* exactly two cells: to_cell gets the colour from_cell had and from_cell
\* becomes empty; every other cell, the cells between them on the path
\* included, keeps its colour.
C12_TwoCellsChangeColor ==
    [][(PathCall /\ HasRoute(color, selected_cell', clicked'))
        => /\ color'[clicked'] = color[selected_cell']
           /\ color'[selected_cell'] = NoColor
           /\ {cell \in DOMAIN color : color'[cell] # color[cell]}
                 = {selected_cell', clicked'}
           /\ \A i \in 2..(Len(path') - 1) :
                 color'[path'[i]] = NoColor /\ color[path'[i]] = NoColor]_vars

\* A ball went along a path with cells in between: they are empty, the ball
\* is on the last cell and the first cell is empty.
C12_Witness ==
    /\ pc \in {"searched", "searched again"}
    /\ Len(path) >= 3
    /\ color[path[1]] = NoColor
    /\ color[path[Len(path)]] # NoColor
    /\ \A i \in 2..(Len(path) - 1) : color[path[i]] = NoColor

\* C13: on a board with at least one cell, after handle_initialization and
\* any calls of handle_action, NoMoreFreeCellsError is never raised: every
\* spawn is attempted while a cell is empty.
C13_NoMoreFreeCellsErrorNeverRaised ==
    columns * rows >= 1 => raised # "NoMoreFreeCellsError"

\* A move onto the last empty cell was followed by a single spawn, on the
\* cell the ball left, which filled the board.
C13_Witness ==
    /\ EventTypes(events) = <<"MoveBall", "AddBall", "GameOver">>
    /\ events[2].cell = path[1]
    /\ FreeCells(color) = {}
    /\ raised = "None"

\* The step is a call handle_action(column, row) with a column outside
\* 1..columns or a row outside 1..rows.
OutOfBoundsCall ==
    /\ pc = "running"
    /\ \/ clicked'[1] < 1 \/ clicked'[1] > columns
       \/ clicked'[2] < 1 \/ clicked'[2] > rows

\* C14: handle_action with a column or a row outside the board raises
\* KeyError, returns no events and leaves the colours, selected_cell and the
\* score as they were.
C14_OutOfBoundsRaisesKeyError ==
    [][OutOfBoundsCall
        => /\ raised' = "KeyError"
           /\ events' = <<>>
           /\ color' = color
           /\ selected_cell' = selected_cell
           /\ score' = score]_vars

\* KeyError was raised for a click outside the board while a ball was
\* selected and the score was not 0.
C14_Witness ==
    /\ raised = "KeyError"
    /\ clicked \notin DOMAIN color
    /\ selected_cell \in Balls(color)
    /\ score > 0

\* The fields of cells that no search has touched.
NeverSearched(col) ==
    [cost |-> [cell \in DOMAIN col |-> NoCost],
     previous_cell |-> [cell \in DOMAIN col |-> NoCell]]

\* C15: the path _evaluate_path returns depends on the colours, from_cell and
\* to_cell only: on cells with cost and previous_cell left by an earlier
\* search it is the path returned on a board of the same colours that was
\* never searched (and empty when that one is empty).
C15_PathIgnoresLeftOvers ==
    [][PathCall
        => path' = _evaluate_path(color, NeverSearched(color).cost,
                                  NeverSearched(color).previous_cell,
                                  selected_cell', clicked').path]_vars

\* A second search, run on the fields the first search left, found a path of
\* at least three cells while an empty cell stayed out of reach.
C15_Witness ==
    /\ pc = "searched again"
    /\ Len(path) >= 3
    /\ cost[path[1]] = 0
    /\ \E cell \in DOMAIN cost : cost[cell] = NoCost /\ color[cell] = NoColor

\* C16: the score is 0 on a created board, is never negative, never
\* decreases, and changes only in a move that clears a line.
C16_ScoreNeverDecreases ==
    [][/\ pc = "created" => score = 0
       /\ score >= 0
       /\ score' >= score
       /\ score' # score
            => /\ Moved
               /\ Cleared # {}
               /\ \E i \in 1..Len(events') :
                     events'[i].type = "LineCompleted"]_vars

\* A cleared line raised a score that was above 0 already.
C16_Witness ==
    /\ EventTypes(events) = <<"MoveBall", "LineCompleted", "UpdateScore">>
    /\ events[3].score = score
    /\ score > Len(events[2].cells)

\* The colours right before the spawn of the step: the created board in
\* handle_initialization, the board with the ball moved in handle_action.
BeforeSpawn == IF pc = "created" THEN color ELSE AfterMove

\* The cells of the AddBall events of a sequence of events, in order.
SpawnCells(evs) ==
    LET added == SelectSeq(evs, LAMBDA e : e.type = "AddBall")
    IN  [i \in 1..Len(added) |-> added[i].cell]

\* C17: every spawn puts its ball on a cell that was empty right before it
\* (empty before the first spawn and not taken by an earlier spawn of the
\* call), and no cell that held a ball changes colour or becomes empty.
C17_SpawnOnEmptyCellsOnly ==
    [][SpawnCells(events') # <<>>
        => /\ Range(SpawnCells(events')) \subseteq FreeCells(BeforeSpawn)
           /\ \A i, j \in 1..Len(SpawnCells(events')) :
                 i # j => SpawnCells(events')[i] # SpawnCells(events')[j]
           /\ \A cell \in Balls(BeforeSpawn) : color'[cell] = BeforeSpawn[cell]
           /\ \A cell \in FreeCells(BeforeSpawn) :
                 color'[cell] # NoColor
                    <=> cell \in Range(SpawnCells(events'))]_vars

\* Three balls were spawned after a move, one of them on the cell the moved
\* ball left, and the moved ball is where it went.
C17_Witness ==
    /\ EventTypes(events) = <<"MoveBall", "AddBall", "AddBall", "AddBall">>
    /\ path[1] \in Range(SpawnCells(events))
    /\ color[clicked] # NoColor
    /\ Cardinality(Range(SpawnCells(events))) = 3

\* The smaller of two numbers.
Min(a, b) == IF a < b THEN a ELSE b

\* C18: a created board has every cell empty, nothing selected and the score
\* 0; handle_initialization on it returns min(3, columns * rows) AddBall
\* events for pairwise distinct cells, then GameOver only if the board is
\* full, and leaves that many balls on the board.
C18_CreateThenInitialize ==
    [][pc = "created"
        => /\ \A cell \in DOMAIN color : color[cell] = NoColor
           /\ selected_cell = NoCell
           /\ score = 0
           /\ raised' = "None"
           /\ Len(SpawnCells(events')) = Min(NumNewBalls, columns * rows)
           /\ Cardinality(Range(SpawnCells(events')))
                 = Min(NumNewBalls, columns * rows)
           /\ \/ events' = [i \in 1..Len(SpawnCells(events')) |->
                              AddBall(SpawnCells(events')[i])]
              \/ /\ events' = Append([i \in 1..Len(SpawnCells(events')) |->
                                        AddBall(SpawnCells(events')[i])],
                                     GameOver)
                 /\ FreeCells(color') = {}
           /\ Cardinality(Balls(color')) = Min(NumNewBalls, columns * rows)
           /\ Balls(color') = Range(SpawnCells(events'))]_vars

\* C20: a move that clears no line returns one MoveBall event, first, then
\* one to three AddBall events, then GameOver, last, exactly when the board
\* is full; nothing follows GameOver, and the spawning stops with the spawn
\* that fills the board, also before the third.
C20_MoveThenSpawnEvents ==
    [][(Moved /\ Qualifying(AfterMove, clicked') = {})
        => /\ raised' = "None"
           /\ Len(SpawnCells(events')) \in 1..NumNewBalls
           /\ Len(SpawnCells(events'))
                 = Min(NumNewBalls, Cardinality(FreeCells(AfterMove)))
           /\ events'[1].type = "MoveBall"
           /\ \A i \in 2..(Len(SpawnCells(events')) + 1) :
                 events'[i].type = "AddBall"
           /\ IF FreeCells(color') = {}
              THEN /\ Len(events') = Len(SpawnCells(events')) + 2
                   /\ events'[Len(events')] = GameOver
              ELSE /\ Len(events') = Len(SpawnCells(events')) + 1
                   /\ Len(SpawnCells(events')) = NumNewBalls]_vars

\* The second spawn after a move filled the board: no third spawn, GameOver
\* is the last event.
C20_Witness ==
    /\ EventTypes(events) = <<"MoveBall", "AddBall", "AddBall", "GameOver">>
    /\ FreeCells(color) = {}
    /\ selected_cell = NoCell

\* C19: on every occupancy and from every ball, the work-list loop of
\* _evaluate_path ends: the stack becomes empty, although a cell is put on
\* it again each time a smaller cost is found for it.
C19_SearchLoopTerminates ==
    (pc = "loop") ~> (pc = "done" /\ stack = <<>>)

\* The loop is about to put a cell on the stack again: the cell on top of
\* the stack has an empty neighbour whose cost is more than one above its own.
C19_Witness ==
    /\ pc = "loop"
    /\ stack # <<>>
    /\ \E n \in DOMAIN color :
          /\ Adjacent(n, stack[Len(stack)])
          /\ color[n] = NoColor
          /\ cost[n] # NoCost
          /\ cost[n] > cost[stack[Len(stack)]] + 1

\* The state GameOver announces: the board has cells and none is empty.
BoardFull == DOMAIN color # {} /\ FreeCells(color) = {}

\* C21: a call that returns GameOver leaves the board full, and on a full
\* board every handle_action on a cell of the board leaves the colours (so
\* the board stays full) and the score as they are and returns nothing but
\* SelectBall and DeselectBall events: after a GameOver only selected_cell
\* changes.
C21_AfterGameOverOnlySelection ==
    [][/\ (\E i \in 1..Len(events') : events'[i] = GameOver) => BoardFull'
       /\ (/\ pc = "running"
           /\ BoardFull
           /\ InBounds(clicked'[1], clicked'[2]))
            => /\ raised' = "None"
               /\ color' = color
               /\ score' = score
               /\ \A i \in 1..Len(events') :
                     events'[i].type \in {"SelectBall", "DeselectBall"}
               /\ events' # <<>>
               /\ selected_cell' = IF selected_cell = clicked'
                                   THEN NoCell ELSE clicked']_vars

\* On a board that a move and its spawn filled, a later call selected
\* another ball in place of the selected one.
C21_Witness ==
    /\ BoardFull
    /\ Len(path) >= 2
    /\ Len(events) = 2
    /\ events[1].type = "DeselectBall"
    /\ events[2] = SelectBall(clicked)
    /\ selected_cell = clicked

====
